---- MODULE Spec2Model ----
(***************************************************************************)
(* Diffuser: the bounded 2D grid (src/src/matrix.rs), the per-frame paint  *)
(* / spillover / merge update (src/src/model.rs) and the event handler     *)
(* that drives it (src/src/app/mod.rs).                                    *)
(*                                                                         *)
(* Arithmetic.  Cell values are f32 in the source.  The model keeps them   *)
(* as binary fixed-point numbers: an integer n stands for n / 2^16, and a  *)
(* division rounds to the nearest representable value, as an f32 division  *)
(* does.  Additions and subtractions of such numbers are exact.            *)
(* Pointer coordinates are f32 as well; the model keeps them in half       *)
(* cells (an integer m stands for m / 2), so that rounding is a real       *)
(* conversion.  frame_time is kept in milliseconds.                        *)
(*                                                                         *)
(* Option<T> is modelled as a set with at most one element.                *)
(***************************************************************************)
EXTENDS Integers, Sequences, FiniteSets, TLC

VARIABLES
    height,             \* Matrix2D.height of both matrices, Rect.height of window_rect
    width,              \* Matrix2D.width of both matrices, Rect.width of window_rect
    base_matrix,        \* Model.base_matrix.cells, a function on 0 .. len-1
    modifier_matrix,    \* Model.modifier_matrix.cells
    left_click_is_held_down,
    right_click_is_held_down,
    mouse_xy,           \* Model.mouse_xy, <<x, y>> in half cells
    previous_mouse_xy,  \* Model.previous_mouse_xy, an Option
    frame_time,         \* run()'s frame_time, the argument of the next update
    panicked,           \* TRUE once an assert or expect of update has failed
    ticks,              \* number of updates run so far
    probe,              \* history of the last update: what each phase saw and did
    lookup,             \* the last Matrix2D query and its results
    visited,            \* what the last run over Matrix2D::iter yielded, in order
    frame               \* the pixel buffer draw writes into, a function on 0 .. 4*len-1

vars == <<height, width, base_matrix, modifier_matrix, left_click_is_held_down,
          right_click_is_held_down, mouse_xy, previous_mouse_xy, frame_time,
          panicked, ticks, probe, lookup, visited, frame>>

-----------------------------------------------------------------------------
(* Bounds of the model *)

\* the window the application opens, in cells (DEFAULT_RESOLUTION_H x _W, scaled down)
DEFAULT_RESOLUTION_H == 3
DEFAULT_RESOLUTION_W == 4
\* updates explored from the initial state
MaxTicks == 3
\* grids of the Matrix2D queries: 1 .. MaxH rows, 1 .. MaxW columns
MaxH == 3
MaxW == 4
\* how far beyond the grid a query's index or coordinate may lie
MaxOver == 2

-----------------------------------------------------------------------------
(* Option *)

None == {}
Some(v) == {v}
Unwrap(o) == CHOOSE v \in o : TRUE

-----------------------------------------------------------------------------
(* src/src/matrix.rs *)

Direction ==
    {"NorthWest", "North", "NorthEast", "West", "East", "SouthEast", "South", "SouthWest"}

\* the order in which update walks the directions
DirectionOrder ==
    <<"NorthWest", "North", "NorthEast", "West", "East", "SouthEast", "South", "SouthWest">>

calculate_index_from_xy(x, y, _height, w) == x + w * y

index_is_in_range(index, h, w) == index >= 0 /\ index < (h * w)

index_is_in_first_row(index, h, w) == index >= 0 /\ index < w

index_is_in_last_row(index, h, w) == index >= (w * (h - 1)) /\ index < (w * h)

index_is_in_first_column(index, h, w) ==
    index_is_in_range(index, h, w) /\ index % w = 0

index_is_in_last_column(index, h, w) ==
    index_is_in_range(index, h, w) /\ (index + 1) % w = 0

index_to_the_north(index, h, w) ==
    IF index_is_in_range(index, h, w) /\ ~index_is_in_first_row(index, h, w)
    THEN index - w
    ELSE -1

\* the slip of an earlier revision: south computed as north, no row test
index_to_the_south_no_row_test(index, h, w) == index - w

index_to_the_south(index, h, w) ==
    IF index_is_in_range(index, h, w) /\ ~index_is_in_last_row(index, h, w)
    THEN index + w
    ELSE -1

index_to_the_northwest(index, h, w) ==
    LET north_index == index_to_the_north(index, h, w)
    IN  IF ~index_is_in_first_column(index, h, w) /\ north_index # -1
        THEN north_index - 1
        ELSE -1

\* a copy of the northwest helper with only the offset changed
index_to_the_northeast_first_column(index, h, w) ==
    LET north_index == index_to_the_north(index, h, w)
    IN  IF ~index_is_in_first_column(index, h, w) /\ north_index # -1
        THEN north_index + 1
        ELSE -1

index_to_the_northeast(index, h, w) ==
    LET north_index == index_to_the_north(index, h, w)
    IN  IF ~index_is_in_last_column(index, h, w) /\ north_index # -1
        THEN north_index + 1
        ELSE -1

\* the west helper without its column test
index_to_the_west_no_column_test(index, h, w) == index - 1

index_to_the_west(index, h, w) ==
    IF ~index_is_in_first_column(index, h, w) THEN index - 1 ELSE -1

index_to_the_east(index, h, w) ==
    IF ~index_is_in_last_column(index, h, w) THEN index + 1 ELSE -1

index_to_the_southeast(index, h, w) ==
    LET south_index == index_to_the_south(index, h, w)
    IN  IF ~index_is_in_last_column(index, h, w) /\ south_index # -1
        THEN south_index + 1
        ELSE -1

index_to_the_southwest(index, h, w) ==
    LET south_index == index_to_the_south(index, h, w)
    IN  IF ~index_is_in_first_column(index, h, w) /\ south_index # -1
        THEN south_index - 1
        ELSE -1

\* the match of get_neighbour_index over the eight helpers
index_to_the(direction, index, h, w) ==
    CASE direction = "NorthWest" -> index_to_the_northwest(index, h, w)
      [] direction = "North"     -> index_to_the_north(index, h, w)
      [] direction = "NorthEast" -> index_to_the_northeast(index, h, w)
      [] direction = "West"      -> index_to_the_west(index, h, w)
      [] direction = "East"      -> index_to_the_east(index, h, w)
      [] direction = "SouthEast" -> index_to_the_southeast(index, h, w)
      [] direction = "South"     -> index_to_the_south(index, h, w)
      [] direction = "SouthWest" -> index_to_the_southwest(index, h, w)

\* Matrix2D::get_neighbour_index of a matrix with h rows, w columns, h*w cells:
\* None if neighbour_index < 0 || neighbour_index > len, else Some(neighbour_index)
get_neighbour_index(index, direction, h, w) ==
    {neighbour_index \in {index_to_the(direction, index, h, w)} :
        ~(neighbour_index < 0 \/ neighbour_index > h * w)}

\* Vec::get / Vec::get_mut of the cells: the cell referred to, by its position
cells_get(index, h, w) == {i \in {index} : i >= 0 /\ i < h * w}

\* Matrix2D::get_neighbouring_cell_mut_by_index (and _by_index): the cell referred to
get_neighbouring_cell_by_index(index, direction, h, w) ==
    UNION {cells_get(neighbour_index, h, w) :
              neighbour_index \in get_neighbour_index(index, direction, h, w)}

\* Matrix2D::get_neighbouring_cell(x, y, direction): the cell referred to
get_neighbouring_cell(x, y, direction, h, w) ==
    IF (x > w) \/ (y > h)
    THEN None
    ELSE get_neighbouring_cell_by_index(calculate_index_from_xy(x, y, h, w), direction, h, w)

\* Matrix2D::new: height * width cells at 0.0
\* Matrix2D::get_neighbouring_cell_mut: no test of x and y before the index is taken
get_neighbouring_cell_mut(x, y, direction, h, w) ==
    get_neighbouring_cell_by_index(calculate_index_from_xy(x, y, h, w), direction, h, w)

\* Matrix2D::get: the cell (as its index) or None
get(x, y, h, w) == cells_get(calculate_index_from_xy(x, y, h, w), h, w)

\* Matrix2D::get_mut
get_mut(x, y, h, w) == cells_get(calculate_index_from_xy(x, y, h, w), h, w)

\* Matrix2D::get_by_index and get_mut_by_index
get_by_index(index, h, w) == cells_get(index, h, w)

NewCells(h, w) == [i \in 0 .. (h * w - 1) |-> 0]

-----------------------------------------------------------------------------
(* src/nannou src/matrix.rs: the coordinate conversions and the iterator of the *)
(* earlier Matrix2D                                                             *)

index_calculator(x, y, w) == x + w * y

\* (index / width, index % width)
xy_calculator(index, w) == <<index \div w, index % w>>

\* Matrix2D::iter / iter_mut, collected: (x, y, cell) for every cell, the cell given
\* as its index
iter(h, w) ==
    [k \in 1 .. (h * w) |->
        LET xy == xy_calculator(k - 1, w) IN <<xy[1], xy[2], k - 1>>]

-----------------------------------------------------------------------------
(* constants.rs and f32 arithmetic *)

\* DEFAULT_MAX_VALUE, 1.0
DEFAULT_MAX_VALUE == 65536
\* DEFAULT_VALUE_CUTOFF, 0.001: no fixed-point value lies between 65 and 0.001 * 2^16
DEFAULT_VALUE_CUTOFF == 65
\* DEFAULT_DECAY_FACTOR, per millisecond of frame time (0.275 per second)
DEFAULT_DECAY_FACTOR == 18
\* let mut frame_time = 0.16
INITIAL_FRAME_TIME == 160

\* "it gets divided into five parts", as the comment above the division has it
Div5(value) == (2 * value + 5) \div 10

\* value / 9.0, rounded to the nearest representable value (value >= 0)
Div9(value) == (2 * value + 9) \div 18

\* only the ceiling applied: .min(hi) in place of .clamp(lo, hi)
clamp_without_floor(v, lo, hi) == IF v > hi THEN hi ELSE v

\* f32::clamp
clamp(v, lo, hi) == IF v < lo THEN lo ELSE IF v > hi THEN hi ELSE v

\* f32::round of m / 2: half-way cases go away from zero
round(m) == IF m >= 0 THEN (m + 1) \div 2 ELSE -((1 - m) \div 2)

\* `as usize` of a rounded f32: negative values saturate to 0
as_usize(n) == IF n < 0 THEN 0 ELSE n

\* `as isize` of a rounded f32
as_isize(n) == n

-----------------------------------------------------------------------------
(* src/src/rect.rs *)

\* the ranges taken with their upper ends included
contains_inclusive(h, w, x, y) == (0 <= y /\ y <= h) /\ (0 <= x /\ x <= w)

\* Rect<usize>::contains
contains(h, w, x, y) == (0 <= y /\ y < h) /\ (0 <= x /\ x < w)

-----------------------------------------------------------------------------
(* line_drawing::Bresenham, as update calls it *)

Octant_new(start, end) ==
    LET dx0 == end[1] - start[1]
        dy0 == end[2] - start[2]
        f1  == dy0 < 0
        dx1 == IF f1 THEN -dx0 ELSE dx0
        dy1 == IF f1 THEN -dy0 ELSE dy0
        f2  == dx1 < 0
        dx2 == IF f2 THEN dy1 ELSE dx1
        dy2 == IF f2 THEN -dx1 ELSE dy1
    IN  (IF f1 THEN 4 ELSE 0) + (IF f2 THEN 2 ELSE 0) + (IF dx2 < dy2 THEN 1 ELSE 0)

Octant_to(octant, p) ==
    CASE octant = 0 -> <<p[1], p[2]>>
      [] octant = 1 -> <<p[2], p[1]>>
      [] octant = 2 -> <<p[2], -p[1]>>
      [] octant = 3 -> <<-p[1], p[2]>>
      [] octant = 4 -> <<-p[1], -p[2]>>
      [] octant = 5 -> <<-p[2], -p[1]>>
      [] octant = 6 -> <<-p[2], p[1]>>
      [] octant = 7 -> <<p[1], -p[2]>>

Octant_from(octant, p) ==
    CASE octant = 0 -> <<p[1], p[2]>>
      [] octant = 1 -> <<p[2], p[1]>>
      [] octant = 2 -> <<-p[2], p[1]>>
      [] octant = 3 -> <<-p[1], p[2]>>
      [] octant = 4 -> <<-p[1], -p[2]>>
      [] octant = 5 -> <<-p[2], -p[1]>>
      [] octant = 6 -> <<p[2], -p[1]>>
      [] octant = 7 -> <<p[1], -p[2]>>

\* Iterator::next of Bresenham, run to exhaustion
RECURSIVE Bresenham_next(_, _, _, _, _, _)
Bresenham_next(point, error, end_x, delta_x, delta_y, octant) ==
    IF point[1] <= end_x
    THEN LET up == error >= 0
             y1 == IF up THEN point[2] + 1 ELSE point[2]
             e1 == IF up THEN error - delta_x ELSE error
         IN  <<Octant_from(octant, point)>> \o
             Bresenham_next(<<point[1] + 1, y1>>, e1 + delta_y,
                            end_x, delta_x, delta_y, octant)
    ELSE <<>>

\* Bresenham::new(start, end), collected
Bresenham(start, end) ==
    LET octant  == Octant_new(start, end)
        s       == Octant_to(octant, start)
        e       == Octant_to(octant, end)
        delta_x == e[1] - s[1]
        delta_y == e[2] - s[2]
    IN  Bresenham_next(s, delta_y - delta_x, e[1], delta_x, delta_y, octant)

-----------------------------------------------------------------------------
(* src/src/model.rs: Model::update, the paint phase *)
\* the match with its first two arms exchanged: the right button decides first
PaintValue_erasing_first(left, right) == IF right THEN 0 ELSE DEFAULT_MAX_VALUE

\* match (left_click_is_held_down, right_click_is_held_down): (true, _) => MAX, (_, true) => 0.0
PaintValue(left, right) == IF left THEN DEFAULT_MAX_VALUE ELSE 0

\* the clip test without its two tests for negative coordinates
LineSkips_beyond_only(line_x, line_y, h, w) == line_x > w \/ line_y > h

\* the clip test of the line loop: the point is skipped
LineSkips(line_x, line_y, h, w) ==
    line_x < 0 \/ line_y < 0 \/ line_x > w \/ line_y > h

\* the body of the line loop for the points k .. Len(points); st = [base, written, panicked]
RECURSIVE PaintLine(_, _, _, _, _, _)
PaintLine(st, points, k, value, h, w) ==
    IF k > Len(points) \/ st.panicked
    THEN st
    ELSE LET line_x == points[k][1]
             line_y == points[k][2]
             index  == calculate_index_from_xy(line_x, line_y, h, w)
         IN  IF LineSkips(line_x, line_y, h, w)
             THEN PaintLine(st, points, k + 1, value, h, w)
             ELSE IF cells_get(index, h, w) = None
                  THEN [st EXCEPT !.panicked = TRUE]   \* expect("invalid index")
                  ELSE PaintLine([st EXCEPT !.base[index] = value,
                                            !.written = @ \cup {index}],
                                 points, k + 1, value, h, w)

\* lines 50-120: [base, written, panicked, previous] after the paint phase
PaintPhase(base, left, right, mouse, previous, h, w) ==
    LET x == as_usize(round(mouse[1]))
        y == as_usize(round(mouse[2]))
        value == PaintValue(left, right)
        st0 == [base |-> base, written |-> {}, panicked |-> FALSE]
    IN  IF left \/ right
        THEN IF contains(h, w, x, y)
             THEN LET st == IF previous # None
                            THEN LET prev == Unwrap(previous)
                                     prev_x == as_isize(round(prev[1]))
                                     prev_y == as_isize(round(prev[2]))
                                 IN  PaintLine(st0, Bresenham(<<prev_x, prev_y>>, <<x, y>>),
                                               1, value, h, w)
                            ELSE LET index == calculate_index_from_xy(x, y, h, w)
                                 IN  IF cells_get(index, h, w) = None
                                     THEN [st0 EXCEPT !.panicked = TRUE]
                                     ELSE [st0 EXCEPT !.base[index] = value,
                                                      !.written = {index}]
                  IN  [base |-> st.base, written |-> st.written, panicked |-> st.panicked,
                       previous |-> Some(mouse)]
             ELSE [base |-> base, written |-> {}, panicked |-> FALSE, previous |-> None]
        ELSE [base |-> base, written |-> {}, panicked |-> FALSE, previous |-> None]

-----------------------------------------------------------------------------
(* src/src/model.rs: Model::update, the spillover pass *)

\* the direction loop from the k-th direction on: spillover is added to each neighbour
RECURSIVE Scatter(_, _, _, _, _, _)
Scatter(modifier, index, spillover, k, h, w) ==
    IF k > Len(DirectionOrder)
    THEN modifier
    ELSE LET cell == get_neighbouring_cell_by_index(index, DirectionOrder[k], h, w)
         IN  Scatter(IF cell = None
                     THEN modifier
                     ELSE [modifier EXCEPT ![Unwrap(cell)] = @ + spillover],
                     index, spillover, k + 1, h, w)

\* the value read before the division instead of after it
Spillover_before_division(value) == value

\* the amount a spilling cell hands to each neighbour: *value after *value /= 9.0
Spillover(value) == Div9(value)

\* the snap to 0.0 of the cells at or below the cutoff left out
SpillCell_without_snap(st, index, h, w) ==
    LET value == st.base[index]
    IN  IF value > DEFAULT_VALUE_CUTOFF
        THEN [base     |-> [st.base EXCEPT ![index] = Div9(value)],
              modifier |-> Scatter(st.modifier, index, Div9(value), 1, h, w),
              spilled  |-> st.spilled \cup {index}]
        ELSE st

\* a single buffer: the spillover is written into the matrix that is being read
SpillCell_single_buffer(st, index, h, w) ==
    LET value == st.base[index]
    IN  IF value > DEFAULT_VALUE_CUTOFF
        THEN [base     |-> Scatter([st.base EXCEPT ![index] = Div9(value)],
                                   index, Div9(value), 1, h, w),
              modifier |-> st.modifier,
              spilled  |-> st.spilled \cup {index}]
        ELSE [st EXCEPT !.base[index] = 0]

\* one turn of the for loop: the filter_map closure on cell index, then the loop body
\* st = [base, modifier, spilled]
SpillCell(st, index, h, w) ==
    LET value == st.base[index]
    IN  IF value > DEFAULT_VALUE_CUTOFF
        THEN [base     |-> [st.base EXCEPT ![index] = Div9(value)],
              modifier |-> Scatter(st.modifier, index, Spillover(value), 1, h, w),
              spilled  |-> st.spilled \cup {index}]
        ELSE IF value <= DEFAULT_VALUE_CUTOFF
             THEN [st EXCEPT !.base[index] = 0]
             ELSE st

\* the for loop over the cells in the given order, from the k-th on
RECURSIVE SpillPass(_, _, _, _, _)
SpillPass(st, order, k, h, w) ==
    IF k > Len(order)
    THEN st
    ELSE SpillPass(SpillCell(st, order[k], h, w), order, k + 1, h, w)

\* iter_mut().enumerate(): ascending index
Ascending(n) == [k \in 1 .. n |-> k - 1]

-----------------------------------------------------------------------------
(* src/src/model.rs: Model::update, the merge pass *)

\* the merge of the earlier revision: decay added, and only a floor
MergeValue_additive(value, mod_value, ft) ==
    LET v == value + mod_value + (DEFAULT_DECAY_FACTOR * ft) IN IF v < 0 THEN 0 ELSE v

\* the merge without the decay term
MergeValue_without_decay(value, mod_value, ft) ==
    clamp(value + mod_value, 0, DEFAULT_MAX_VALUE)

\* (*value + *mod_value - (DEFAULT_DECAY_FACTOR * frame_time)).clamp(0.0, DEFAULT_MAX_VALUE)
MergeValue(value, mod_value, ft) ==
    clamp(value + mod_value - (DEFAULT_DECAY_FACTOR * ft), 0, DEFAULT_MAX_VALUE)

\* base after the for_each over modifier_matrix
MergeBase(base, modifier, ft) ==
    [i \in DOMAIN base |->
        IF i \in DOMAIN modifier THEN MergeValue(base[i], modifier[i], ft) ELSE base[i]]

\* the reset left out
ResetValue_left_out(mod_value) == mod_value

\* *mod_value = 0.0
ResetValue(mod_value) == 0

\* modifier after the for_each over modifier_matrix
MergeModifier(modifier) == [i \in DOMAIN modifier |-> ResetValue(modifier[i])]

-----------------------------------------------------------------------------
(* src/src/app/mod.rs: App::new and the event handler of run *)

\* what winit_input_helper reports for one button in one step
ButtonEvents == {"pressed", "released", "none"}

\* if input.mouse_pressed(b) { true } else if input.mouse_released(b) { false }
Held(held, event) ==
    IF event = "pressed" THEN TRUE ELSE IF event = "released" THEN FALSE ELSE held

\* pointer positions input.mouse() reports, in half cells: the first cell, an inner
\* cell, the end of the first row, one cell left of the last row, one cell right of
\* the second row, one cell below the second column
Points(h, w) ==
    {<<0, 0>>, <<2, 2>>, <<2 * (w - 1), 0>>, <<-2, 2 * (h - 1)>>,
     <<2 * w, 2>>, <<2, 2 * h>>}

\* time_of_last_frame_start.elapsed(), in milliseconds
FrameTimes == {0, 160}

\* the buffer of Pixels::new(w, h, ..): 4 bytes for every cell, all 0
NewFrame(h, w) == [i \in 0 .. (4 * h * w - 1) |-> 0]

NoProbe ==
    [before |-> <<>>, previous |-> None, written |-> {}, snap |-> <<>>,
     spilled |-> {}, kept |-> <<>>, acc |-> <<>>, frame_time |-> 0,
     held_before |-> FALSE, mouse_before |-> <<0, 0>>, resize |-> None]

NoLookup == [x |-> 0, y |-> 0, index |-> 0, direction |-> "none",
             raw |-> 0, by_index |-> None, by_xy |-> None, by_xy_mut |-> None,
             cell |-> None, cell_mut |-> None, cell_by_index |-> None,
             calculated |-> 0, xy |-> <<0, 0>>, as_tested |-> 0, neighbour |-> None]

\* Model::new(window_rect) for a window of h x w cells, and the locals of run
InitModel(h, w) ==
    /\ height = h
    /\ width = w
    /\ base_matrix = NewCells(h, w)
    /\ modifier_matrix = NewCells(h, w)
    /\ left_click_is_held_down = FALSE
    /\ right_click_is_held_down = FALSE
    /\ mouse_xy = <<0, 0>>
    /\ previous_mouse_xy = None
    /\ frame_time = INITIAL_FRAME_TIME
    /\ panicked = FALSE
    /\ ticks = 0
    /\ probe = NoProbe
    /\ lookup = NoLookup
    /\ visited = <<>>
    /\ frame = NewFrame(h, w)

Init == InitModel(DEFAULT_RESOLUTION_H, DEFAULT_RESOLUTION_W)

\* if let Some((x, y)) = input.mouse() { model.mouse_xy = (x, y) }
Moved(mouse, mouse_event) == IF mouse_event = None THEN mouse ELSE Unwrap(mouse_event)

\* assert_eq!(self.base_matrix.len(), self.modifier_matrix.len(), ..) holds
LengthsAgree(base, modifier) == Cardinality(DOMAIN base) = Cardinality(DOMAIN modifier)

\* window sizes input.window_resized() reports for a window of h x w: none, one
\* column wider, one row higher
ResizeEvents(h, w) == {None, Some(<<w + 1, h>>), Some(<<w, h + 1>>)}

\* a resize that builds a new base grid of the new size
Resized_rebuilds_base(base, resize) ==
    IF resize = None THEN base ELSE NewCells(Unwrap(resize)[2], Unwrap(resize)[1])

\* if let Some(size) = input.window_resized() { pixels.resize(size.width, size.height) }:
\* the surface the buffer is rendered to is resized, the model is not touched
Resized(base, resize) == base

\* the spillover pass reading the base matrix as it was before the paint phase
SpillInput_unpainted(base, painted) == base

\* for (index, spillover) in self.base_matrix.iter_mut()...: the spillover pass reads
\* the field the paint phase has just written
SpillInput(base, painted) == painted

\* One run of the handler's input branch, after the button and pointer events have
\* been taken over as left, right and mouse: the resize event is handled,
\* model.update(frame_time) runs to its end, then frame_time is measured.
Handle(left, right, mouse, resize, elapsed) ==
    /\ ~panicked
    /\ left_click_is_held_down' = left
    /\ right_click_is_held_down' = right
    /\ mouse_xy' = mouse
    /\ \E resized \in {Resized(base_matrix, resize)} :
       IF ~LengthsAgree(resized, modifier_matrix)
       THEN /\ panicked' = TRUE
            /\ base_matrix' = resized
            /\ UNCHANGED <<modifier_matrix, previous_mouse_xy, frame_time, probe>>
       ELSE
       \E painted \in {PaintPhase(resized, left, right, mouse, previous_mouse_xy,
                                  height, width)} :
       \E spilt \in {SpillPass([base |-> SpillInput(resized, painted.base),
                                modifier |-> modifier_matrix,
                                spilled |-> {}],
                               Ascending(height * width), 1, height, width)} :
       IF painted.panicked
       THEN /\ panicked' = TRUE
            /\ base_matrix' = painted.base
            /\ UNCHANGED <<modifier_matrix, previous_mouse_xy, frame_time, probe>>
       ELSE /\ panicked' = FALSE
            /\ previous_mouse_xy' = painted.previous
            /\ base_matrix' = MergeBase(spilt.base, spilt.modifier, frame_time)
            /\ modifier_matrix' = MergeModifier(spilt.modifier)
            /\ frame_time' = elapsed
            /\ probe' = [before     |-> base_matrix,
                         previous   |-> previous_mouse_xy,
                         written    |-> painted.written,
                         snap       |-> painted.base,
                         spilled    |-> spilt.spilled,
                         kept       |-> spilt.base,
                         acc        |-> spilt.modifier,
                         frame_time |-> frame_time,
                         held_before |-> left_click_is_held_down
                                            \/ right_click_is_held_down,
                         mouse_before |-> mouse_xy,
                         resize     |-> resize]
    /\ UNCHANGED <<height, width, lookup, visited, frame>>

\* the handler's run as one of the first MaxTicks updates
Update(left, right, mouse, resize, elapsed) ==
    /\ ticks < MaxTicks
    /\ ticks' = ticks + 1
    /\ Handle(left, right, mouse, resize, elapsed)

\* the button, pointer and timing inputs of the handler, without resize events
Next ==
    \E left  \in {Held(left_click_is_held_down, e) : e \in ButtonEvents},
       right \in {Held(right_click_is_held_down, e) : e \in ButtonEvents},
       mouse \in {Moved(mouse_xy, m) : m \in {None} \cup {Some(p) : p \in Points(height, width)}},
       elapsed \in FrameTimes :
        Update(left, right, mouse, None, elapsed)

Spec == Init /\ [][Next]_vars

\* the handler with resize events among its inputs: the left button, a pointer that
\* stays or moves to the inner cell, and every resize event
NextResize ==
    \E left  \in {Held(left_click_is_held_down, e) : e \in ButtonEvents},
       mouse \in {Moved(mouse_xy, m) : m \in {None, Some(<<2, 2>>)}},
       resize \in ResizeEvents(height, width),
       elapsed \in FrameTimes :
        Update(left, right_click_is_held_down, mouse, resize, elapsed)

SpecResize == Init /\ [][NextResize]_vars

-----------------------------------------------------------------------------
(* Matrix2D on its own: grids of every size up to MaxH x MaxW, and the neighbour *)
(* queries a caller can make of them.                                            *)

\* frame times of updates with a decay amount above 0
PositiveFrameTimes == FrameTimes \ {0}

\* grid states of the 3 x 4 grid with cells in [0, MAX_VALUE]: one cell at one sample
\* value, all others at another
DecaySamples == {0, DEFAULT_VALUE_CUTOFF + 1, DEFAULT_MAX_VALUE \div 2, DEFAULT_MAX_VALUE}

InitDecay ==
    \E a \in DecaySamples, b \in DecaySamples,
       c \in 0 .. (DEFAULT_RESOLUTION_H * DEFAULT_RESOLUTION_W - 1),
       ft \in PositiveFrameTimes :
        /\ height = DEFAULT_RESOLUTION_H
        /\ width = DEFAULT_RESOLUTION_W
        /\ base_matrix = [i \in 0 .. (DEFAULT_RESOLUTION_H * DEFAULT_RESOLUTION_W - 1) |->
                             IF i = c THEN a ELSE b]
        /\ modifier_matrix = NewCells(DEFAULT_RESOLUTION_H, DEFAULT_RESOLUTION_W)
        /\ left_click_is_held_down = FALSE
        /\ right_click_is_held_down = FALSE
        /\ mouse_xy = <<0, 0>>
        /\ previous_mouse_xy = None
        /\ frame_time = ft
        /\ panicked = FALSE
        /\ ticks = 0
        /\ probe = NoProbe
        /\ lookup = NoLookup
        /\ visited = <<>>
        /\ frame = NewFrame(DEFAULT_RESOLUTION_H, DEFAULT_RESOLUTION_W)

\* the handler run again and again with no button, pointer or resize event and a
\* frame time above 0; event_loop.run calls the closure for as long as the window lives
\* ticks holds the parity of the number of updates, so that the state space is finite
NextDecay ==
    \E elapsed \in PositiveFrameTimes :
        /\ Handle(left_click_is_held_down, right_click_is_held_down, mouse_xy, None, elapsed)
        /\ ticks' = (ticks + 1) % 2

\* one more update is run: what every step of NextDecay does to ticks
AnotherUpdate == ~panicked /\ ticks' = (ticks + 1) % 2

\* the event loop does not stop: while update has not panicked, another update follows
SpecDecay == InitDecay /\ [][NextDecay]_vars /\ WF_ticks(AnotherUpdate)

-----------------------------------------------------------------------------
(* src/src/main.rs: the earlier revision of Model::update, with additive decay *)

\* lines 206-225: one cell is painted, with no line to the previous position;
\* [base, panicked] after the paint block
MainPaint(base, left, right, mouse, h, w) ==
    LET x == as_usize(round(mouse[1]))
        y == as_usize(round(mouse[2]))
    IN  IF (left \/ right) /\ x \in 0 .. (w - 1) /\ y \in 0 .. (h - 1)
        THEN IF get_mut(x, y, h, w) = None
             THEN [base |-> base, panicked |-> TRUE]    \* expect("invalid xy coords")
             ELSE [base |-> [base EXCEPT ![Unwrap(get_mut(x, y, h, w))] =
                                             PaintValue(left, right)],
                   panicked |-> FALSE]
        ELSE [base |-> base, panicked |-> FALSE]

\* the merge with the decay subtracted, as the later revision has it, floor only
MainMergeValue_subtracting(value, mod_value, ft) ==
    LET v == value + mod_value - (DEFAULT_DECAY_FACTOR * ft) IN IF v < 0 THEN 0 ELSE v

\* (*value + *mod_value + (DEFAULT_DECAY_FACTOR * frame_time)).max(0.0)
MainMergeValue(value, mod_value, ft) ==
    LET v == value + mod_value + (DEFAULT_DECAY_FACTOR * ft) IN IF v < 0 THEN 0 ELSE v

\* base after the for_each over modifier_matrix
MainMergeBase(base, modifier, ft) ==
    [i \in DOMAIN base |->
        IF i \in DOMAIN modifier THEN MainMergeValue(base[i], modifier[i], ft) ELSE base[i]]

\* One run of the handler's input branch in main.rs: the events are taken over,
\* model.update(frame_time) runs to its end, then frame_time is measured. The
\* spillover pass (lines 235-273) is the one of model.rs.
MainHandle(left, right, mouse, elapsed) ==
    /\ ~panicked
    /\ left_click_is_held_down' = left
    /\ right_click_is_held_down' = right
    /\ mouse_xy' = mouse
    /\ IF ~LengthsAgree(base_matrix, modifier_matrix)
       THEN /\ panicked' = TRUE
            /\ UNCHANGED <<base_matrix, modifier_matrix, frame_time, probe>>
       ELSE
       \E painted \in {MainPaint(base_matrix, left, right, mouse, height, width)} :
       \E spilt \in {SpillPass([base |-> painted.base, modifier |-> modifier_matrix,
                                spilled |-> {}],
                               Ascending(height * width), 1, height, width)} :
       IF painted.panicked
       THEN /\ panicked' = TRUE
            /\ UNCHANGED <<base_matrix, modifier_matrix, frame_time, probe>>
       ELSE /\ panicked' = FALSE
            /\ base_matrix' = MainMergeBase(spilt.base, spilt.modifier, frame_time)
            /\ modifier_matrix' = MergeModifier(spilt.modifier)
            /\ frame_time' = elapsed
            /\ probe' = [NoProbe EXCEPT !.before = base_matrix,
                                        !.snap = painted.base,
                                        !.spilled = spilt.spilled,
                                        !.kept = spilt.base,
                                        !.acc = spilt.modifier,
                                        !.frame_time = frame_time]
    /\ UNCHANGED <<height, width, previous_mouse_xy, lookup, visited, frame>>

\* frame times of updates with a decay amount above 0: one with an amount below the
\* cutoff, one with an amount above it
AdditiveFrameTimes == {3, INITIAL_FRAME_TIME}

\* Model::new for a window of h x w cells: the all-zero grid
InitAdditive == \E h \in 1 .. MaxH, w \in 1 .. MaxW : InitModel(h, w)

\* the handler run again and again with no button or pointer event and a frame time
\* above 0, every frame taking as long as the first one did; ticks holds the parity
\* of the number of updates
NextAdditive ==
    \E elapsed \in IF probe = NoProbe THEN AdditiveFrameTimes ELSE {frame_time} :
        /\ MainHandle(left_click_is_held_down, right_click_is_held_down, mouse_xy, elapsed)
        /\ ticks' = (ticks + 1) % 2

\* the event loop does not stop: while update has not panicked, another update follows
SpecAdditive == InitAdditive /\ [][NextAdditive]_vars /\ WF_ticks(AnotherUpdate)

-----------------------------------------------------------------------------
(* src/src/matrix.rs queried on grids of every size *)

InitGrid == \E h \in 1 .. MaxH, w \in 1 .. MaxW : InitModel(h, w)

\* the cell (x, y) and its neighbour in one direction, asked for in each of the ways
\* Matrix2D offers
Lookup(x, y, direction) ==
    LET index == calculate_index_from_xy(x, y, height, width)
    IN  /\ lookup' = [x |-> x, y |-> y, index |-> index, direction |-> direction,
                      raw |-> index_to_the(direction, index, height, width),
                      by_index |-> get_neighbouring_cell_by_index(index, direction,
                                                                  height, width),
                      by_xy |-> get_neighbouring_cell(x, y, direction, height, width),
                      by_xy_mut |-> get_neighbouring_cell_mut(x, y, direction,
                                                              height, width),
                      cell |-> get(x, y, height, width),
                      cell_mut |-> get_mut(x, y, height, width),
                      cell_by_index |-> get_by_index(index, height, width),
                      calculated |-> index_calculator(x, y, width),
                      xy |-> xy_calculator(index_calculator(x, y, width), width),
                      \* as test_calculate_index_from_xy calls it, (width, height) = (6, 3)
                      as_tested |-> calculate_index_from_xy(x, y, 6, 3),
                      neighbour |-> get_neighbour_index(index, direction, height, width)]
        /\ UNCHANGED <<height, width, base_matrix, modifier_matrix,
                       left_click_is_held_down, right_click_is_held_down, mouse_xy,
                       previous_mouse_xy, frame_time, panicked, ticks, probe,
                       visited, frame>>

\* one run over Matrix2D::iter
Iterate ==
    /\ visited' = iter(height, width)
    /\ UNCHANGED <<height, width, base_matrix, modifier_matrix,
                   left_click_is_held_down, right_click_is_held_down, mouse_xy,
                   previous_mouse_xy, frame_time, panicked, ticks, probe, lookup, frame>>

NextGrid ==
    \/ \E x \in 0 .. (width - 1 + MaxOver), y \in 0 .. (height - 1 + MaxOver),
          direction \in Direction :
           Lookup(x, y, direction)
    \/ Iterate

SpecGrid == InitGrid /\ [][NextGrid]_vars

-----------------------------------------------------------------------------
(* The geometry the claims are stated in, independent of the helpers above *)

\* column and row offset of a direction
Dx(direction) ==
    CASE direction \in {"NorthWest", "West", "SouthWest"} -> -1
      [] direction \in {"North", "South"}                 -> 0
      [] direction \in {"NorthEast", "East", "SouthEast"} -> 1

Dy(direction) ==
    CASE direction \in {"NorthWest", "North", "NorthEast"} -> -1
      [] direction \in {"West", "East"}                    -> 0
      [] direction \in {"SouthWest", "South", "SouthEast"} -> 1

\* the step from (x, y) in the direction would leave an h x w grid
AtRowEdge(direction, y, h) ==
    \/ direction \in {"NorthWest", "North", "NorthEast"} /\ y = 0
    \/ direction \in {"SouthWest", "South", "SouthEast"} /\ y = h - 1

AtColumnEdge(direction, x, w) ==
    \/ direction \in {"NorthWest", "West", "SouthWest"} /\ x = 0
    \/ direction \in {"NorthEast", "East", "SouthEast"} /\ x = w - 1

InGrid(x, y, h, w) == x >= 0 /\ x < w /\ y >= 0 /\ y < h

-----------------------------------------------------------------------------
(* C1 *)

\* C1: for every in-range cell (x, y) of the grid and every direction, the neighbour
\* lookup (by index and by coordinates) yields no cell exactly when the cell lies on
\* the row edge or the column edge the direction crosses, and otherwise yields the
\* cell one step away in that direction: same row for West / East, same column for
\* North / South, never a cell of another row or of the opposite edge.  Checked on
\* every grid of 1 .. MaxH rows and 1 .. MaxW columns, 1-wide and 1-high included.
C1_NeighbourAbsentExactlyAtEdges ==
    (lookup.direction \in Direction /\ InGrid(lookup.x, lookup.y, height, width)) =>
        LET d      == lookup.direction
            atEdge == AtRowEdge(d, lookup.y, height) \/ AtColumnEdge(d, lookup.x, width)
        IN  /\ (lookup.by_index = None) <=> atEdge
            /\ (lookup.by_xy = None) <=> atEdge
            /\ \A n \in lookup.by_index \cup lookup.by_xy :
                  /\ n >= 0 /\ n < height * width
                  /\ n % width = lookup.x + Dx(d)
                  /\ n \div width = lookup.y + Dy(d)

\* a diagonal asked of a cell of a 1-wide grid that has a row below it: no cell; and
\* the state is one in which a lookup has been made
C1_Witness ==
    /\ width = 1 /\ height > 1
    /\ lookup.direction = "SouthEast"
    /\ lookup.x = 0 /\ lookup.y = 0
    /\ lookup.by_index = None /\ lookup.by_xy = None

-----------------------------------------------------------------------------
(* C2 *)

\* the cases of the unit tests, on the grid of 3 rows and 6 columns
C2_TestCases ==
    /\ index_to_the_north(9, 3, 6) = 3
    /\ index_to_the_northeast(8, 3, 6) = 3
    /\ index_to_the_southeast(9, 3, 6) = 16
    /\ index_to_the_southwest(9, 3, 6) = 14
    /\ index_to_the_northwest(14, 3, 6) = 7
    /\ index_to_the_north(3, 3, 6) = -1
    /\ index_to_the_northeast(3, 3, 6) = -1
    /\ index_to_the_northwest(3, 3, 6) = -1
    /\ index_to_the_west(6, 3, 6) = -1
    /\ index_to_the_east(17, 3, 6) = -1
    /\ index_to_the_southeast(11, 3, 6) = -1
    /\ index_to_the_south(12, 3, 6) = -1
    /\ index_to_the_southwest(6, 3, 6) = -1

\* C2: for every in-range linear index i of a row-major grid and every direction with
\* offset (dx, dy), index_to_the_<direction>(i, h, w) is i + dx + w*dy when the cell
\* (x + dx, y + dy) is inside the grid, and -1 otherwise; the unit tests' cases on the
\* 3 x 6 grid come out as the tests expect.
C2_HelperReturnsOffsetIndexOrMinusOne ==
    /\ C2_TestCases
    /\ (lookup.direction \in Direction /\ lookup.index < height * width) =>
          LET i  == lookup.index
              dx == Dx(lookup.direction)
              dy == Dy(lookup.direction)
          IN  lookup.raw = IF InGrid((i % width) + dx, (i \div width) + dy, height, width)
                           THEN i + dx + width * dy
                           ELSE -1

\* a helper has been asked for a diagonal neighbour that exists, and one for a
\* neighbour across the last column
C2_Witness ==
    /\ lookup.direction = "NorthEast"
    /\ lookup.index < height * width
    /\ lookup.index % width # width - 1
    /\ lookup.raw = lookup.index + 1 - width
    /\ lookup.raw >= 0

-----------------------------------------------------------------------------
(* Vocabulary of the claims about update *)

Cells == 0 .. (height * width - 1)

\* the cells i and j of the grid touch, by an edge or by a corner
Adjacent(i, j) ==
    LET ax == (i % width) - (j % width)
        ay == (i \div width) - (j \div width)
    IN  i # j /\ ax \in -1 .. 1 /\ ay \in -1 .. 1

\* all eight neighbours of the cell exist
Interior(i) ==
    /\ i % width > 0 /\ i % width < width - 1
    /\ i \div width > 0 /\ i \div width < height - 1

RECURSIVE SumOver(_, _)
SumOver(f, S) ==
    IF S = {} THEN 0 ELSE LET i == CHOOSE i \in S : TRUE IN f[i] + SumOver(f, S \ {i})

Total(f) == SumOver(f, DOMAIN f)

\* n is the representable value nearest to v / 9
IsNinthOf(n, v) == 9 * n - v \in -4 .. 4

\* the cells that exceed the cutoff at the start of the diffusion phase
Spilling == {i \in Cells : probe.snap[i] > DEFAULT_VALUE_CUTOFF}

\* the decay amount of the last update
DecayAmount == DEFAULT_DECAY_FACTOR * probe.frame_time

Updated == ticks > 0 /\ ~panicked

-----------------------------------------------------------------------------
(* C3 *)

\* C3 as claimed: in the diffusion phase every accumulator cell receives, from each
\* adjacent spilling cell, that cell's value before the division by 9, and the
\* spilling cell itself keeps a ninth of its value.
C3_SpilloverIsValueBeforeDivision ==
    Updated =>
        /\ \A i \in Spilling : IsNinthOf(probe.kept[i], probe.snap[i])
        /\ \A j \in Cells :
              probe.acc[j] = SumOver(probe.snap, {i \in Spilling : Adjacent(i, j)})

\* C3 as amended: in the diffusion phase every accumulator cell receives, from each
\* adjacent spilling cell, that cell's value after the division by 9, the same ninth
\* the spilling cell keeps for itself.
C3_SpilloverIsValueAfterDivision ==
    Updated =>
        /\ \A i \in Spilling : IsNinthOf(probe.kept[i], probe.snap[i])
        /\ \A j \in Cells :
              probe.acc[j] = SumOver(probe.kept, {i \in Spilling : Adjacent(i, j)})

\* an update in which a cell spilled into neighbours
C3_Witness ==
    /\ Updated
    /\ \E i \in Spilling, j \in Cells : Adjacent(i, j) /\ probe.acc[j] >= probe.kept[i]
                                        /\ probe.kept[i] > 0

-----------------------------------------------------------------------------
(* C4 *)

\* the diffusion phase of the last update started from the all-zero grid with the
\* one cell c at MAX_VALUE
OnlyCellAtMax(c) ==
    \A i \in Cells : probe.snap[i] = IF i = c THEN DEFAULT_MAX_VALUE ELSE 0

-----------------------------------------------------------------------------
(* C5 *)

\* cell values of a base grid: none, the cutoff, a ninth of the maximum, the maximum
CellSamples == {0, DEFAULT_VALUE_CUTOFF, Div9(DEFAULT_MAX_VALUE), DEFAULT_MAX_VALUE}

\* accumulated spillover: none, one ninth, the maximum, eight times the maximum
AccumulatorSamples ==
    {0, Div9(DEFAULT_MAX_VALUE), DEFAULT_MAX_VALUE, 8 * DEFAULT_MAX_VALUE}

\* C5: after every completed update, whatever the grid held, whatever the frame time
\* and whatever spillover was accumulated, every cell of the base grid lies in
\* [0, MAX_VALUE]; the merge of one cell stays in that range also for accumulated
\* spillover far above MAX_VALUE.
C5_BaseWithinRange ==
    /\ \A i \in Cells : base_matrix[i] >= 0 /\ base_matrix[i] <= DEFAULT_MAX_VALUE
    /\ \A value \in CellSamples, mod_value \in AccumulatorSamples,
          ft \in FrameTimes \cup {INITIAL_FRAME_TIME} :
            /\ MergeValue(value, mod_value, ft) >= 0
            /\ MergeValue(value, mod_value, ft) <= DEFAULT_MAX_VALUE

\* an update whose merge had to clamp: a cell that received spillover and whose sum
\* minus the decay fell below 0.0
C5_Witness ==
    /\ Updated
    /\ \E i \in Cells : /\ probe.acc[i] > 0
                        /\ probe.kept[i] + probe.acc[i] - DecayAmount < 0
                        /\ base_matrix[i] = 0

-----------------------------------------------------------------------------
(* C6 *)

Descending(n) == [k \in 1 .. n |-> n - k]

\* the even cells, then the odd ones
Interleaved(n) ==
    [k \in 1 .. n |-> IF k <= (n + 1) \div 2 THEN 2 * (k - 1) ELSE 2 * (k - 1 - (n + 1) \div 2) + 1]

\* from the middle cell on, around to the cell before it
Rotated(n) == [k \in 1 .. n |-> (k - 1 + n \div 2) % n]

\* visiting orders other than the one update uses
OtherOrders(n) == {Descending(n), Interleaved(n), Rotated(n)}

\* the spillover pass started on the grid the last diffusion phase started on
PhaseStart == [base |-> probe.snap, modifier |-> NewCells(height, width), spilled |-> {}]

-----------------------------------------------------------------------------
(* C7 *)

\* the paint phase of the last update wrote no cell
NothingPainted == probe.written = {}

-----------------------------------------------------------------------------
(* C8 *)

\* C8: a cell whose value is at or below the cutoff at the start of a diffusion phase
\* is set to exactly 0.0 by that phase, and if it receives no spillover it is still
\* exactly 0.0 after that update; being 0.0, it is at or below the cutoff at the start
\* of the next diffusion phase unless it is painted, so the same holds in every later
\* update.
C8_SubCutoffCellIsZeroed ==
    Updated =>
        \A i \in Cells :
            /\ probe.snap[i] <= DEFAULT_VALUE_CUTOFF =>
                  /\ probe.kept[i] = 0
                  /\ probe.acc[i] = 0 => base_matrix[i] = 0
            /\ (probe.before[i] = 0 /\ i \notin probe.written /\ probe.acc[i] = 0) =>
                  base_matrix[i] = 0

\* a cell that held a positive value at or below the cutoff, received nothing, and
\* is 0.0 after the update
C8_Witness ==
    /\ Updated
    /\ \E i \in Cells : /\ probe.snap[i] > 0
                        /\ probe.snap[i] <= DEFAULT_VALUE_CUTOFF
                        /\ probe.acc[i] = 0
                        /\ base_matrix[i] = 0

-----------------------------------------------------------------------------
(* C9 *)

\* C9: after every update every cell of the accumulator grid is 0.0: the spillover
\* of one tick is merged once and does not carry into the next tick.
C9_AccumulatorIsResetByEveryUpdate ==
    \A i \in DOMAIN modifier_matrix : modifier_matrix[i] = 0

\* an update that accumulated spillover and has merged it
C9_Witness ==
    /\ Updated
    /\ \E i \in Cells : probe.acc[i] > 0 /\ base_matrix[i] > 0

-----------------------------------------------------------------------------
(* C10 *)

Abs(n) == IF n < 0 THEN -n ELSE n

Max(a, b) == IF a >= b THEN a ELSE b

\* the cell under the pointer in the last update
PointerCell == <<round(mouse_xy[1]), round(mouse_xy[2])>>

\* the cell of the pointer position recorded before the last update
PreviousCell ==
    LET prev == Unwrap(probe.previous) IN <<round(prev[1]), round(prev[2])>>

\* the rasterized line from the previous to the current position
StrokeLine == Bresenham(PreviousCell, PointerCell)

\* the cells the paint phase is to write
StrokeCells ==
    IF probe.previous = None
    THEN {PointerCell[1] + width * PointerCell[2]}
    ELSE {StrokeLine[k][1] + width * StrokeLine[k][2] :
             k \in {n \in 1 .. Len(StrokeLine) :
                       InGrid(StrokeLine[n][1], StrokeLine[n][2], height, width)}}

\* the line runs from the one end to the other without a gap or a repeated column/row step
IsRasterLine(line, from, to) ==
    /\ Len(line) = Max(Abs(to[1] - from[1]), Abs(to[2] - from[2])) + 1
    /\ line[1] = from
    /\ line[Len(line)] = to
    /\ \A k \in 1 .. (Len(line) - 1) :
          Max(Abs(line[k + 1][1] - line[k][1]), Abs(line[k + 1][2] - line[k][2])) = 1

\* C10: the paint phase of an update with a button held and the pointer in bounds
\* writes exactly these base cells: the current cell alone when no previous pointer
\* position is recorded, otherwise every in-bounds cell of the rasterized line from
\* the previous to the current position, both ends included; each written cell
\* becomes MAX_VALUE when the left button is held and 0.0 when only the right one is,
\* and no other cell is changed by the paint phase.  A stroke from (0,0) to (3,0)
\* writes exactly (0,0), (1,0), (2,0), (3,0).
C10_PaintWritesExactlyTheStroke ==
    /\ Bresenham(<<0, 0>>, <<3, 0>>) = <<(<<0, 0>>), (<<1, 0>>), (<<2, 0>>), (<<3, 0>>)>>
    /\ (/\ Updated
        /\ left_click_is_held_down \/ right_click_is_held_down
        /\ InGrid(PointerCell[1], PointerCell[2], height, width)) =>
           /\ probe.previous # None => IsRasterLine(StrokeLine, PreviousCell, PointerCell)
           /\ probe.written = StrokeCells
           /\ \A i \in Cells :
                 probe.snap[i] = IF i \in StrokeCells
                                 THEN (IF left_click_is_held_down
                                       THEN DEFAULT_MAX_VALUE ELSE 0)
                                 ELSE probe.before[i]

\* the stroke from (0,0) to (3,0) with the left button held, over cells that were
\* not all at MAX_VALUE before
C10_Witness ==
    /\ Updated
    /\ left_click_is_held_down
    /\ probe.previous = Some(<<0, 0>>)
    /\ mouse_xy = <<6, 0>>
    /\ probe.written = {0, 1, 2, 3}
    /\ \E i \in {1, 2} : probe.before[i] < DEFAULT_MAX_VALUE
    /\ \A i \in {0, 1, 2, 3} : probe.snap[i] = DEFAULT_MAX_VALUE

-----------------------------------------------------------------------------
(* C11 *)

\* a button was held in the last update
ButtonHeld == left_click_is_held_down \/ right_click_is_held_down

\* the pointer of the last update was over a cell of the grid
PointerInside == InGrid(PointerCell[1], PointerCell[2], height, width)

\* a button was held, with the pointer over a cell of the grid, in the update before
\* the last one
PaintedBefore ==
    /\ ticks > 1
    /\ probe.held_before
    /\ InGrid(round(probe.mouse_before[1]), round(probe.mouse_before[2]), height, width)

\* C11: after each update the recorded previous pointer position is present if and
\* only if a button was held and the pointer was inside the grid during that update;
\* and a painting update that follows an update without a held button, or with the
\* pointer outside the grid, writes the current cell only.
C11_PreviousRecordedIffHeldInside ==
    Updated =>
        /\ (previous_mouse_xy # None) <=> (ButtonHeld /\ PointerInside)
        /\ (ticks > 1 /\ ~PaintedBefore /\ ButtonHeld /\ PointerInside) =>
              probe.written = {PointerCell[1] + width * PointerCell[2]}

-----------------------------------------------------------------------------
(* C12 *)

\* C12: if a button is held during an update while the pointer lies outside
\* [0, width) x [0, height) in either coordinate (beyond the right or the bottom
\* edge, or at a negative coordinate), the paint phase writes no base cell in that
\* update and the recorded previous position is cleared.
C12_OutsidePointerPaintsNothing ==
    (Updated /\ ButtonHeld /\ ~PointerInside) =>
        /\ probe.written = {}
        /\ previous_mouse_xy = None

-----------------------------------------------------------------------------
(* C13 *)

\* the points the paint phase of the last update went through: the line from the
\* recorded previous position to the cell update computed for the pointer, or that
\* cell alone
PaintedPoints ==
    LET cell == <<as_usize(PointerCell[1]), as_usize(PointerCell[2])>>
    IN  IF ~ButtonHeld \/ ~contains(height, width, cell[1], cell[2])
        THEN {}
        ELSE IF probe.previous = None
             THEN {cell}
             ELSE LET line == Bresenham(PreviousCell, cell)
                  IN  {line[k] : k \in 1 .. Len(line)}

\* C13: for every sequence of pointer positions and button states, the paint phase
\* skips every point of the rasterized line that has a coordinate outside
\* [0, width) x [0, height): every cell it writes is the cell of a point inside the
\* grid (no write lands on another row through the index of an off-grid point), and
\* the lookup expect("invalid index") never fails.
C13_OffGridLinePointsAreSkipped ==
    /\ ~panicked
    /\ Updated =>
          probe.written =
              {p[1] + width * p[2] :
                  p \in {q \in PaintedPoints : InGrid(q[1], q[2], height, width)}}

\* a line was drawn that starts left of the grid: its off-grid point, whose index
\* x + width*y is the index of a cell of the row above, was skipped
C13_Witness ==
    /\ Updated
    /\ probe.written # {}
    /\ \E p \in PaintedPoints :
          /\ p[1] < 0
          /\ p[1] + width * p[2] \in Cells
          /\ p[1] + width * p[2] \notin probe.written

-----------------------------------------------------------------------------
(* C14 *)

\* a query has been made of the grid
LookedUp == lookup.direction \in Direction

\* C14: get(x, y) and get_mut(x, y) return None if and only if x >= width or
\* y >= height; a call with x >= width and a small y does not return a cell of a
\* later row.
C14_GetIsNoneExactlyOutsideTheGrid ==
    LookedUp =>
        /\ (lookup.cell = None) <=> (lookup.x >= width \/ lookup.y >= height)
        /\ (lookup.cell_mut = None) <=> (lookup.x >= width \/ lookup.y >= height)

-----------------------------------------------------------------------------
(* C15 *)

\* C15: every accessor given an out-of-range cell returns the empty result, never a
\* real cell: get_by_index / get_mut_by_index and the neighbour lookup by index for
\* a linear index >= width * height, and the neighbour lookups by (x, y) for an
\* (x, y) outside the grid, in each of the 8 directions.
C15_OutOfRangeCellGivesNoCell ==
    LookedUp =>
        /\ lookup.index >= height * width =>
              /\ lookup.cell_by_index = None
              /\ lookup.by_index = None
        /\ ~InGrid(lookup.x, lookup.y, height, width) =>
              /\ lookup.by_xy = None
              /\ lookup.by_xy_mut = None

-----------------------------------------------------------------------------
(* C16 *)

\* C16: for every (x, y) with 0 <= x < width and 0 <= y < height the linear index is
\* x + width*y, and converting that index back to coordinates gives the same (x, y).
C16_IndexAndCoordinatesRoundTrip ==
    (LookedUp /\ InGrid(lookup.x, lookup.y, height, width)) =>
        /\ lookup.index = lookup.x + width * lookup.y
        /\ lookup.calculated = lookup.x + width * lookup.y
        /\ lookup.xy = <<lookup.x, lookup.y>>

-----------------------------------------------------------------------------
(* C17 *)

\* C17: calculate_index_from_xy, called with its size arguments as the unit test
\* passes them for a grid 6 wide and 3 high, returns the row-major index x + 6*y:
\* (1,1) gives 7, (5,2) gives 17, (0,2) gives 12.
C17_TestCallGivesRowMajorIndex ==
    LookedUp =>
        /\ (lookup.x = 1 /\ lookup.y = 1) => lookup.as_tested = 7
        /\ (lookup.x = 5 /\ lookup.y = 2) => lookup.as_tested = 17
        /\ (lookup.x = 0 /\ lookup.y = 2) => lookup.as_tested = 12

-----------------------------------------------------------------------------
(* C18 *)

\* C18: grid iteration visits every cell exactly once in ascending linear-index
\* order, and the (x, y) yielded with the k-th value is the cell's column and row:
\* x < width and x + width*y = k.
C18_IterationYieldsColumnAndRow ==
    visited # <<>> =>
        /\ Len(visited) = height * width
        /\ \A k \in 1 .. Len(visited) :
              /\ visited[k][3] = k - 1
              /\ visited[k][1] < width
              /\ visited[k][1] + width * visited[k][2] = k - 1

-----------------------------------------------------------------------------
(* src/src/model.rs: Model::draw, on grids holding any cell values *)

\* grids of up to MaxDrawH x MaxDrawW cells
MaxDrawH == 2
MaxDrawW == 2

\* up to this many chunks, draw is run in every order of the chunks
MaxPermuted == 4

\* the buffer handed to draw is up to this many bytes too short or too long
MaxSlack == 4

\* 1.0 and 255.0 as the literals of draw
ONE == 65536
BYTE_MAX == 255

\* f32::min
min(a, b) == IF a <= b THEN a ELSE b

\* f32::round of a value that is a whole number of units: toward zero instead
round_toward_zero(v) == IF v >= 0 THEN v \div ONE ELSE -((-v) \div ONE)

\* f32::round of a value, the result a whole number: half away from zero
round_to_whole(v) ==
    IF v >= 0 THEN (2 * v + ONE) \div (2 * ONE) ELSE -((ONE - 2 * v) \div (2 * ONE))

\* the value itself as the byte: the higher the value, the lighter the pixel
luma_not_inverted(value) ==
    clamp(round_to_whole(min(value, ONE) * BYTE_MAX), 0, BYTE_MAX)

\* lines 202-203: (value.min(1.0) * 255.0).round(), (255.0 - value).clamp(0.0, 255.0) as u8
luma(value) ==
    clamp(BYTE_MAX - round_to_whole(min(value, ONE) * BYTE_MAX), 0, BYTE_MAX)

\* frame.len()
FrameLen(buffer) == Cardinality(DOMAIN buffer)

\* assert_eq!(frame.len() / 4, self.base_matrix.len()) holds
LengthAsserted(buffer, base) == FrameLen(buffer) \div 4 = Cardinality(DOMAIN base)

\* the whole chunks only, as par_chunks_exact_mut(4) cuts them
chunk_count_exact(buffer) == FrameLen(buffer) \div 4

\* the number of chunks par_chunks_mut(4) cuts the buffer into, a shorter last one
\* included
chunk_count(buffer) == (FrameLen(buffer) + 3) \div 4

\* the closure of for_each on the chunk of one cell: pixel.copy_from_slice(..)
DrawChunk(buffer, base, index) ==
    [i \in DOMAIN buffer |->
        IF i \in {4 * index, 4 * index + 1, 4 * index + 2} THEN luma(base[index])
        ELSE IF i = 4 * index + 3 THEN BYTE_MAX
        ELSE buffer[i]]

\* the chunks order[k], order[k+1], .. processed one after the other, up to the first
\* one for which base_matrix.get(index) is None: ok_or_else(..).unwrap() panics there;
\* st = [frame, panicked]
RECURSIVE DrawChunks(_, _, _, _)
DrawChunks(st, base, order, k) ==
    IF k > Len(order) \/ st.panicked
    THEN st
    ELSE IF order[k] \notin DOMAIN base
         THEN [st EXCEPT !.panicked = TRUE]
         ELSE DrawChunks([st EXCEPT !.frame = DrawChunk(st.frame, base, order[k])],
                         base, order, k + 1)

\* orders in which par_chunks_mut(4).enumerate().for_each may process n chunks
ChunkOrders(n) ==
    IF n <= MaxPermuted
    THEN {order \in [1 .. n -> 0 .. (n - 1)] :
             \A j, k \in 1 .. n : order[j] = order[k] => j = k}
    ELSE {Ascending(n)} \cup OtherOrders(n)

\* cell values a grid handed to draw may hold: -0.5, 0.0, 1/9, 0.5, 1.0, 1.5
DrawSamples == {-(ONE \div 2), 0, Div9(ONE), ONE \div 2, ONE, ONE + ONE \div 2}

\* a model whose base grid holds one value in one cell and one value in the others,
\* and a buffer of 4 bytes for every cell, or up to MaxSlack bytes fewer or more
InitDraw ==
    \E h \in 1 .. MaxDrawH, w \in 1 .. MaxDrawW :
        \E c \in 0 .. (h * w - 1), s \in DrawSamples, t \in DrawSamples,
           slack \in (-MaxSlack) .. MaxSlack :
            /\ height = h
            /\ width = w
            /\ base_matrix = [i \in 0 .. (h * w - 1) |-> IF i = c THEN s ELSE t]
            /\ modifier_matrix = NewCells(h, w)
            /\ left_click_is_held_down = FALSE
            /\ right_click_is_held_down = FALSE
            /\ mouse_xy = <<0, 0>>
            /\ previous_mouse_xy = None
            /\ frame_time = INITIAL_FRAME_TIME
            /\ panicked = FALSE
            /\ ticks = 0
            /\ probe = NoProbe
            /\ lookup = NoLookup
            /\ visited = <<>>
            /\ frame = [i \in 0 .. (4 * h * w + slack - 1) |-> 0]

\* Event::RedrawRequested: model.draw(pixels.get_frame()), the chunks taken in the
\* given order; probe.before keeps the base grid draw was called with
Draw(order) ==
    /\ ~panicked
    /\ probe' = [probe EXCEPT !.before = base_matrix]
    /\ IF ~LengthAsserted(frame, base_matrix)
       THEN /\ panicked' = TRUE
            /\ frame' = frame
       ELSE \E drawn \in {DrawChunks([frame |-> frame, panicked |-> FALSE],
                                     base_matrix, order, 1)} :
                /\ panicked' = drawn.panicked
                /\ frame' = drawn.frame
    /\ UNCHANGED <<height, width, base_matrix, modifier_matrix,
                   left_click_is_held_down, right_click_is_held_down, mouse_xy,
                   previous_mouse_xy, frame_time, ticks, lookup, visited>>

NextDraw == \E order \in ChunkOrders(chunk_count(frame)) : Draw(order)

SpecDraw == InitDraw /\ [][NextDraw]_vars

-----------------------------------------------------------------------------
(* C19 *)

\* draw has been called
DrawCalled == probe.before # <<>>

\* draw has been called and has returned
Drawn == DrawCalled /\ ~panicked

\* the 4 bytes of the pixel of cell i
Pixel(i) == <<frame[4 * i], frame[4 * i + 1], frame[4 * i + 2], frame[4 * i + 3]>>

\* 255 - round(clamp(value, 0, 1) * 255)
ExpectedLuma(value) == BYTE_MAX - round_to_whole(clamp(value, 0, ONE) * BYTE_MAX)

\* C19: draw writes, for every cell index i, exactly the 4 bytes
\* (luma, luma, luma, 255) at the positions 4i .. 4i+3 of the buffer, with
\* luma = 255 - round(clamp(base[i], 0, 1) * 255), for every cell value, values below
\* 0 and above 1 included; the buffer has no other bytes, the result is the same for
\* every order in which the chunks are processed, and base is left as it was.
C19_DrawWritesLumaOfEveryCell ==
    Drawn =>
        /\ DOMAIN frame = 0 .. (4 * height * width - 1)
        /\ \A i \in Cells :
              Pixel(i) = <<ExpectedLuma(base_matrix[i]), ExpectedLuma(base_matrix[i]),
                           ExpectedLuma(base_matrix[i]), BYTE_MAX>>
        /\ base_matrix = probe.before

\* a grid with a cell below 0 and a cell above 1 has been drawn
C19_Witness ==
    /\ Drawn
    /\ \E i, j \in Cells : base_matrix[i] < 0 /\ base_matrix[j] > ONE

-----------------------------------------------------------------------------
(* C20 *)

\* C20 as claimed: cell value 1.0 gives the pixel (0,0,0,255), 0.0 gives
\* (255,255,255,255) and 0.5 gives (128,128,128,255).
C20_HalfGives128 ==
    Drawn =>
        \A i \in Cells :
            /\ base_matrix[i] = ONE => Pixel(i) = <<0, 0, 0, 255>>
            /\ base_matrix[i] = 0 => Pixel(i) = <<255, 255, 255, 255>>
            /\ base_matrix[i] = ONE \div 2 => Pixel(i) = <<128, 128, 128, 255>>

\* C20 as amended: cell value 1.0 gives the pixel (0,0,0,255), 0.0 gives
\* (255,255,255,255) and 0.5 gives (127,127,127,255): 0.5 * 255 = 127.5 rounds to
\* 128, and 255 - 128 = 127.
C20_HalfGives127 ==
    Drawn =>
        \A i \in Cells :
            /\ base_matrix[i] = ONE => Pixel(i) = <<0, 0, 0, 255>>
            /\ base_matrix[i] = 0 => Pixel(i) = <<255, 255, 255, 255>>
            /\ base_matrix[i] = ONE \div 2 => Pixel(i) = <<127, 127, 127, 255>>

\* a grid holding 0.5 in one cell and 1.0 in another has been drawn
C20_Witness ==
    /\ Drawn
    /\ \E i, j \in Cells : base_matrix[i] = ONE \div 2 /\ base_matrix[j] = ONE

-----------------------------------------------------------------------------
(* C21 *)

\* C21: draw fails for every buffer whose length differs from 4 * grid length, the
\* lengths 4 * len + 1, + 2 and + 3 included, and returns normally when the length
\* is exactly 4 * grid length.
C21_DrawFailsExactlyOnLengthMismatch ==
    DrawCalled => (panicked <=> FrameLen(frame) # 4 * height * width)

\* draw has been called with a buffer one byte too long: the assert on
\* frame.len() / 4 passed, and the call failed
C21_Witness ==
    /\ DrawCalled
    /\ FrameLen(frame) = 4 * height * width + 1
    /\ LengthAsserted(frame, base_matrix)
    /\ panicked

-----------------------------------------------------------------------------
(* C22 *)

\* C22: in every reachable state, so at the start of every update, base and
\* accumulator have the dimensions of the window rectangle and the same length, and
\* the length assertion at the head of update has never failed, whatever the input
\* events were, window resize events included.
C22_MatricesKeepTheSameLength ==
    /\ ~panicked
    /\ LengthsAgree(base_matrix, modifier_matrix)
    /\ DOMAIN base_matrix = 0 .. (height * width - 1)
    /\ DOMAIN modifier_matrix = 0 .. (height * width - 1)

\* an update that came with a resize event has run, after an update that painted
C22_Witness ==
    /\ Updated
    /\ ticks > 1
    /\ probe.resize # None
    /\ \E i \in Cells : probe.before[i] > 0

-----------------------------------------------------------------------------
(* C23 *)

\* C23: after an update during which both the left (Adding) and the right (Erasing)
\* button were held, every cell the paint phase wrote holds MAX_VALUE when the
\* phase ends, none holds 0.0; after an update during which only the right button
\* was held, every written cell holds 0.0.
C23_AddingTakesPrecedence ==
    Updated =>
        /\ (left_click_is_held_down /\ right_click_is_held_down)
              => \A i \in probe.written : probe.snap[i] = DEFAULT_MAX_VALUE
        /\ (~left_click_is_held_down /\ right_click_is_held_down)
              => \A i \in probe.written : probe.snap[i] = 0

\* both buttons were held and the paint phase wrote a cell that was not at MAX_VALUE
C23_Witness ==
    /\ Updated
    /\ left_click_is_held_down
    /\ right_click_is_held_down
    /\ \E i \in probe.written : probe.before[i] # DEFAULT_MAX_VALUE

-----------------------------------------------------------------------------
(* C24 *)

\* C24: the paint phase of an update is complete before its diffusion phase reads
\* the grid. A cell written while the Adding button is held spills in that same
\* update: it keeps a ninth of MAX_VALUE and ends the update at
\* clamp(MAX_VALUE/9 + received spillover - decay). A cell written while only the
\* Erasing button is held is 0.0 when the diffusion phase tests it, does not spill,
\* and no accumulator cell holds a contribution from it.
C24_PaintedCellsDiffuseInTheSameUpdate ==
    Updated =>
        \A i \in probe.written :
            IF left_click_is_held_down
            THEN /\ i \in probe.spilled
                 /\ IsNinthOf(probe.kept[i], DEFAULT_MAX_VALUE)
                 /\ base_matrix[i] = clamp(probe.kept[i] + probe.acc[i] - DecayAmount,
                                           0, DEFAULT_MAX_VALUE)
            ELSE /\ probe.snap[i] = 0
                 /\ i \notin probe.spilled
                 /\ probe.kept[i] = 0
                 /\ \A j \in Cells :
                       probe.acc[j] = SumOver(probe.kept, {k \in probe.spilled \ {i} :
                                                              Adjacent(k, j)})

\* a cell that was below the cutoff was painted in Adding mode and ends the update
\* below MAX_VALUE
C24_Witness ==
    /\ Updated
    /\ left_click_is_held_down
    /\ \E i \in probe.written :
          /\ probe.before[i] <= DEFAULT_VALUE_CUTOFF
          /\ base_matrix[i] < DEFAULT_MAX_VALUE

-----------------------------------------------------------------------------
(* C26 *)

\* the direction with the negated offset
Opposite(direction) ==
    CHOOSE d \in Direction : Dx(d) = -Dx(direction) /\ Dy(d) = -Dy(direction)

\* the cells get_neighbour_index names for the cell i, over the eight directions
NeighboursOf(i) ==
    UNION {get_neighbour_index(i, d, height, width) : d \in Direction}

\* C26: neighbour lookup is symmetric. For every in-range index i and direction d,
\* if get_neighbour_index gives j, then j is in range, j differs from i, and
\* get_neighbour_index of j in the opposite direction gives i; so the cells that
\* spill into a cell are exactly the cells it spills into.
C26_NeighbourLookupIsSymmetric ==
    /\ (LookedUp /\ lookup.index \in Cells) =>
          \A j \in lookup.neighbour :
              /\ j \in Cells
              /\ j # lookup.index
              /\ get_neighbour_index(j, Opposite(lookup.direction), height, width)
                    = Some(lookup.index)
    /\ \A a, b \in Cells : a \in NeighboursOf(b) <=> b \in NeighboursOf(a)

\* a diagonal neighbour was found for a cell in the first column of a grid with more
\* than one row and column
C26_Witness ==
    /\ LookedUp
    /\ lookup.index \in Cells
    /\ lookup.index % width = 0
    /\ width > 1
    /\ lookup.direction \in {"NorthEast", "SouthEast"}
    /\ lookup.neighbour # None

-----------------------------------------------------------------------------
(* C25 *)

MaxCell(f) == CHOOSE m \in {f[i] : i \in DOMAIN f} : \A i \in DOMAIN f : f[i] <= m

AllZero == \A i \in Cells : base_matrix[i] = 0

Handled == probe.before # <<>> /\ ~panicked

\* the largest cell is below the largest cell before the update by the decay amount
\* or more, or is 0.0
MaxDropsByDecay ==
    Handled => MaxCell(base_matrix) <= Max(MaxCell(probe.before) - DecayAmount, 0)

\* the same, but for the rounding of the nine divisions by 9 that make up a cell
MaxDropsByDecayButRounding ==
    Handled => MaxCell(base_matrix) <= Max(MaxCell(probe.before) - DecayAmount + 4, 0)

-----------------------------------------------------------------------------
(* C27 *)

\* the largest decay amount of an update
LargestDecayAmount ==
    DEFAULT_DECAY_FACTOR * MaxCell([ft \in AdditiveFrameTimes |-> ft])

\* no cell is below the decay amount of the last update
Grown == \A i \in Cells : base_matrix[i] >= DecayAmount /\ base_matrix[i] > 0

\* the cell (x, y) is at most twice the largest decay amount, times the product of
\* its distances to the two borders beyond its row, and likewise for its column
Bounded ==
    \A i \in Cells :
        LET x == i % width
            y == i \div width
        IN  /\ base_matrix[i] <= 2 * LargestDecayAmount * (x + 1) * (width - x)
            /\ base_matrix[i] <= 2 * LargestDecayAmount * (y + 1) * (height - y)

\* C27 as claimed: in the additive-decay revision, with a positive decay amount in
\* every update and no painting, from the all-zero grid some cell eventually exceeds
\* every bound B; here for B = MAX_VALUE.
C27_CellsGrowWithoutBound == <>(\E i \in Cells : base_matrix[i] > DEFAULT_MAX_VALUE)

\* C27 as amended: in the additive-decay revision, with a positive decay amount in
\* every update and no painting, from the all-zero grid every cell is at or above
\* the decay amount after each update and never returns to 0.0, but the values
\* stay bounded: a spilling cell keeps a ninth and hands a ninth to each neighbour it
\* has, so what is spilt across the border is lost, and no cell (x, y) of a w x h
\* grid exceeds 2 * decay amount * min((x+1)(w-x), (y+1)(h-y)).
C27_CellsGrowToABound == Handled => (Grown /\ Bounded)

\* the grid has stopped growing: an update with cells above the cutoff left every
\* cell at the value it had
C27_Witness ==
    /\ Handled
    /\ base_matrix = probe.before
    /\ probe.spilled = Cells
    /\ width > 1
    /\ height > 1

====
